---- MODULE Spec2Model ----
(***************************************************************************)
(* Model of density/data/__init__.py: the data loader (db_to_pandas), the  *)
(* historical mean estimator (get_historical_means), the prediction series *)
(* builder (df_predict) and the comparison renderer                        *)
(* (plot_prediction_point_estimate).                                       *)
(*                                                                         *)
(* Instants are seconds since 1970-01-01 00:00:00 (a Thursday).  A mean is *)
(* the exact quotient sum/count, kept as a reduced fraction <<num, den>>.  *)
(* Python values whose type decides the behaviour (a str, a DatetimeIndex, *)
(* a PeriodIndex) are tagged records, so that a value bound to the wrong   *)
(* parameter behaves as it does in Python.                                 *)
(***************************************************************************)
EXTENDS Integers, Sequences, FiniteSets, TLC

VARIABLES
    density_data,    \* rows of the table density_data in the data source
    df,              \* the frame most recently loaded by df_predict (line 104)
    prev_df,         \* the frame an earlier call had left when the last began
    op,              \* the last call made by the client
    args,            \* its arguments
    raised,          \* the exception it raised, "" when it returned
    ret,             \* the value it returned
    nQueries,        \* queries it issued against the data source
    predictorCalls,  \* calls it made to the injected predictor
    received,        \* what df_predict's parameters were bound to
    future_dts,      \* the renderer's future index (line 62)
    figure           \* the lines of the chart the renderer built

vars == <<density_data, df, prev_df, op, args, raised, ret, nQueries, predictorCalls,
          received, future_dts, figure>>

----------------------------------------------------------------------------
(* Bounds of the model *)

MaxRows == 2
MaxTargets == 2
MaxObserved == 2

----------------------------------------------------------------------------
(* Time *)

SecondsPerDay == 24 * 60 * 60
SecondsPerWeek == 7 * SecondsPerDay

\* pandas: Monday = 0; day 0 of the epoch is a Thursday (3)
dayofweek(t) == ((t \div SecondsPerDay) + 3) % 7

\* datetime.time(): hour, minute and second of the instant
time(t) == t % SecondsPerDay

----------------------------------------------------------------------------
(* Input domains *)

Floors == {"f1", "f2"}

\* 00:00:00 on the Thursday and the Friday of week w of the epoch
Thu(w) == w * SecondsPerWeek
Fri(w) == w * SecondsPerWeek + SecondsPerDay
Quarter == 15 * 60

\* dump times of historical rows: the same weekday and time in two weeks,
\* another time of the same day, the same time of another weekday
HistoryInstants == {Thu(0), Thu(0) + Quarter, Fri(0), Thu(1)}

\* instants asked for
TargetInstants == {Thu(2), Thu(2) + Quarter}

\* instants of an observed series, a quarter of an hour apart and off the
\* minute by 30 seconds
ObservedInstants == {Thu(2) + 30 - k * Quarter : k \in 0..(MaxObserved - 1)}

Counts == {1, 2}

\* rows the collector may dump: the first floor at every instant, the second
\* floor at the first instant only
Rows ==
    {r \in [dump_time : HistoryInstants, group_name : Floors,
            client_count : Counts] :
        r.group_name = "f1" \/ r.dump_time = Thu(0)}

SeqsUpTo(S, n) == UNION {[1..k -> S] : k \in 0..n}

----------------------------------------------------------------------------
(* Python values *)

Str(s) == [kind |-> "str", s |-> s, idx |-> <<>>]
DatetimeIndex(ts) == [kind |-> "DatetimeIndex", s |-> "", idx |-> ts]
PeriodIndexOf(ords) == [kind |-> "PeriodIndex", s |-> "", idx |-> ords]
None == [kind |-> "None", s |-> "", idx |-> <<>>]

NoReturn == [kind |-> "none", values |-> <<>>, index |-> None]
List(vs) == [kind |-> "list", values |-> vs, index |-> None]
Series(vs, ix) == [kind |-> "Series", values |-> vs, index |-> ix]
Figure == [kind |-> "Figure", values |-> <<>>, index |-> None]

NoArgs == [conn |-> None, floor |-> None, index |-> None, series |-> <<>>,
           name |-> "", predictor |-> ""]

----------------------------------------------------------------------------
(* Arithmetic of means *)

RECURSIVE Gcd(_, _)
Gcd(a, b) == IF b = 0 THEN a ELSE Gcd(b, a % b)

\* the quotient n/d, d > 0, in lowest terms
Frac(n, d) == LET g == Gcd(n, d) IN <<n \div g, d \div g>>

RECURSIVE sum(_)
sum(xs) == IF xs = <<>> THEN 0 ELSE Head(xs) + sum(Tail(xs))

\* Series.mean() of a non-empty column
mean(xs) == Frac(sum(xs), Len(xs))

----------------------------------------------------------------------------
(* db_to_pandas *)

\* .set_index("dump_time").assign(group_name=..., parent_name=...): the
\* dump time becomes the index of the frame, the names become categories
\* (the identifier and parent columns are carried along and never read)
set_index(rows) ==
    [i \in DOMAIN rows |->
        [index |-> rows[i].dump_time,
         group_name |-> rows[i].group_name,
         client_count |-> rows[i].client_count]]

\* pd.read_sql('SELECT * FROM density_data', conn): one query for every row
read_sql(conn) ==
    IF conn.up
    THEN [raised |-> "", rows |-> density_data, queries |-> 1]
    ELSE [raised |-> "DatabaseError", rows |-> <<>>, queries |-> 1]

\* a loader that queries a second time when the first query fails
db_to_pandas_retrying(conn) ==
    LET q == read_sql(conn)
        again == read_sql(conn)
    IN  IF q.raised = ""
        THEN [raised |-> "", frame |-> set_index(q.rows), queries |-> q.queries]
        ELSE IF again.raised = ""
        THEN [raised |-> "", frame |-> set_index(again.rows),
              queries |-> q.queries + again.queries]
        ELSE [raised |-> again.raised, frame |-> <<>>,
              queries |-> q.queries + again.queries]

\* a loader that hands back the frame of an earlier call when there is one
db_to_pandas_cached(conn) ==
    LET q == read_sql(conn)
    IN  IF df # <<>>
        THEN [raised |-> "", frame |-> df, queries |-> 0]
        ELSE IF q.raised # ""
        THEN [raised |-> q.raised, frame |-> <<>>, queries |-> q.queries]
        ELSE [raised |-> "", frame |-> set_index(q.rows), queries |-> q.queries]

db_to_pandas(conn) ==
    LET q == read_sql(conn)
    IN  IF q.raised # ""
        THEN [raised |-> q.raised, frame |-> <<>>, queries |-> q.queries]
        ELSE [raised |-> "", frame |-> set_index(q.rows), queries |-> q.queries]

----------------------------------------------------------------------------
(* get_historical_means *)

\* a grouping that keys the time of day by its hour
group_key_by_hour(r) ==
    <<r.group_name, dayofweek(r.index), time(r.index) - (time(r.index) % 3600)>>

\* the grouping key of a row of the frame
group_key(r) == <<r.group_name, dayofweek(r.index), time(r.index)>>

\* df.groupby([df.group_name, df.index.dayofweek, df.index.time]): the
\* groups that occur, each with its rows in frame order
groupby(frame) ==
    [k \in {group_key(frame[i]) : i \in DOMAIN frame} |->
        SelectSeq(frame, LAMBDA r : group_key(r) = k)]

\* groups.get_group(key): KeyError when no row has the key
get_group(groups, key) ==
    IF key \in DOMAIN groups
    THEN [raised |-> "", rows |-> groups[key]]
    ELSE [raised |-> "KeyError", rows |-> <<>>]

column(rows, c) == [i \in DOMAIN rows |-> rows[i][c]]

\* a comprehension that builds its list back to front
RECURSIVE comprehension_reversed(_, _, _, _)
comprehension_reversed(groups, floor, dates, i) ==
    IF i > Len(dates)
    THEN [raised |-> "", values |-> <<>>]
    ELSE LET date == dates[i]
             g == get_group(groups, <<floor.s, dayofweek(date), time(date)>>)
         IN  IF g.raised # ""
             THEN [raised |-> g.raised, values |-> <<>>]
             ELSE LET rest == comprehension_reversed(groups, floor, dates, i + 1)
                  IN  IF rest.raised # ""
                      THEN rest
                      ELSE [raised |-> "",
                            values |-> rest.values \o
                                <<mean(column(g.rows, "client_count"))>>]

\* a comprehension that passes over the dates without a group
RECURSIVE comprehension_skipping(_, _, _, _)
comprehension_skipping(groups, floor, dates, i) ==
    IF i > Len(dates)
    THEN [raised |-> "", values |-> <<>>]
    ELSE LET date == dates[i]
             g == get_group(groups, <<floor.s, dayofweek(date), time(date)>>)
             rest == comprehension_skipping(groups, floor, dates, i + 1)
         IN  IF g.raised # ""
             THEN rest
             ELSE [raised |-> "",
                   values |-> <<mean(column(g.rows, "client_count"))>>
                                 \o rest.values]

\* the list comprehension over the dates of a DatetimeIndex, from position
\* i on: the first exception ends the comprehension and no list is built
RECURSIVE comprehension(_, _, _, _)
comprehension(groups, floor, dates, i) ==
    IF i > Len(dates)
    THEN [raised |-> "", values |-> <<>>]
    ELSE LET date == dates[i]
             g == get_group(groups, <<floor.s, dayofweek(date), time(date)>>)
         IN  IF g.raised # ""
             THEN [raised |-> g.raised, values |-> <<>>]
             ELSE LET rest == comprehension(groups, floor, dates, i + 1)
                  IN  IF rest.raised # ""
                      THEN rest
                      ELSE [raised |-> "",
                            values |-> <<mean(column(g.rows, "client_count"))>>
                                          \o rest.values]

\* an estimator that turns away an index that is not strictly ascending
get_historical_means_validating(frame, floor, index) ==
    LET groups == groupby(frame)
    IN  CASE index.kind = "DatetimeIndex" /\ floor.kind = "str" ->
               IF \E i \in 1..(Len(index.idx) - 1) :
                     index.idx[i] >= index.idx[i + 1]
               THEN [raised |-> "ValueError", values |-> <<>>]
               ELSE comprehension(groups, floor, index.idx, 1)
          [] index.kind = "str" /\ index.s = "" ->
               [raised |-> "", values |-> <<>>]
          [] index.kind = "str" /\ index.s # "" ->
               [raised |-> "AttributeError", values |-> <<>>]

\* index is iterated; each element must have dayofweek and time(): the
\* elements of a str are one-character strs and have neither
get_historical_means(frame, floor, index) ==
    LET groups == groupby(frame)
    IN  CASE index.kind = "DatetimeIndex" /\ floor.kind = "str" ->
               comprehension(groups, floor, index.idx, 1)
          [] index.kind = "str" /\ index.s = "" ->
               [raised |-> "", values |-> <<>>]
          [] index.kind = "str" /\ index.s # "" ->
               [raised |-> "AttributeError", values |-> <<>>]

----------------------------------------------------------------------------
(* df_predict *)

Reverse(xs) == [i \in DOMAIN xs |-> xs[Len(xs) + 1 - i]]

\* a builder that labels the means with the index back to front
df_predict_relabelled(conn, index, floor) ==
    LET l == db_to_pandas(conn)
    IN  IF l.raised # ""
        THEN [raised |-> l.raised, ret |-> NoReturn, loaded |-> FALSE,
              frame |-> <<>>, queries |-> l.queries]
        ELSE LET means == get_historical_means(l.frame, floor, index)
             IN  IF means.raised # ""
                 THEN [raised |-> means.raised, ret |-> NoReturn,
                       loaded |-> TRUE, frame |-> l.frame,
                       queries |-> l.queries]
                 ELSE [raised |-> "",
                       ret |-> Series(means.values,
                                      [index EXCEPT !.idx = Reverse(index.idx)]),
                       loaded |-> TRUE, frame |-> l.frame,
                       queries |-> l.queries]

\* pd.Series(means, index=index)
df_predict(conn, index, floor) ==
    LET l == db_to_pandas(conn)
    IN  IF l.raised # ""
        THEN [raised |-> l.raised, ret |-> NoReturn, loaded |-> FALSE,
              frame |-> <<>>, queries |-> l.queries]
        ELSE LET means == get_historical_means(l.frame, floor, index)
             IN  IF means.raised # ""
                 THEN [raised |-> means.raised, ret |-> NoReturn,
                       loaded |-> TRUE, frame |-> l.frame,
                       queries |-> l.queries]
                 ELSE [raised |-> "", ret |-> Series(means.values, index),
                       loaded |-> TRUE, frame |-> l.frame,
                       queries |-> l.queries]

----------------------------------------------------------------------------
(* plot_prediction_point_estimate *)

\* PeriodIndex(start=start, freq='15T', periods=periods): periods of freq
\* minutes, held as minute ordinals; the first one is the minute of start
PeriodIndex(start, freq, periods) ==
    PeriodIndexOf([i \in 1..periods |-> (start \div 60) + (i - 1) * freq])

\* PeriodIndex.to_datetime(): the first second of every period
to_datetime(pi) == DatetimeIndex([i \in DOMAIN pi.idx |-> pi.idx[i] * 60])

\* the parameters of df_predict, in the order of its signature
df_predict_params == <<"conn", "index", "floor">>

\* a positional call binds the k-th argument to the k-th parameter
bound(params, argv, name) ==
    argv[CHOOSE k \in DOMAIN params : params[k] = name]

\* a predictor of the documented type
\* Callable[[connection, str, PeriodIndex], Series]: a flat estimate of zero
\* for every period asked for
flat_predictor(conn, floor, index) ==
    [raised |-> "",
     ret |-> List([i \in DOMAIN index.idx |-> <<0, 1>>]),
     loaded |-> FALSE, frame |-> <<>>, queries |-> 0]

\* predictor(conn, series.name, future_dts)
call_predictor(predictor, argv) ==
    CASE predictor = "df_predict" ->
           df_predict(bound(df_predict_params, argv, "conn"),
                      bound(df_predict_params, argv, "index"),
                      bound(df_predict_params, argv, "floor"))
      [] predictor = "flat_predictor" ->
           flat_predictor(argv[1], argv[2], argv[3])

\* what df_predict's parameters hold after the predictor call
received_by(predictor, argv) ==
    IF predictor = "df_predict"
    THEN [index |-> bound(df_predict_params, argv, "index"),
          floor |-> bound(df_predict_params, argv, "floor")]
    ELSE [index |-> None, floor |-> None]

Predictors == {"df_predict", "flat_predictor"}

line(x, y) == [x |-> x, y |-> y]

NotCalled == [index |-> None, floor |-> None]

\* a last instant that falls back on the epoch for an empty index
last_or_epoch(index) ==
    IF index = <<>>
    THEN [raised |-> "", value |-> 0]
    ELSE [raised |-> "", value |-> index[Len(index)]]

\* series.index[-1]
last(index) ==
    IF index = <<>>
    THEN [raised |-> "IndexError", value |-> 0]
    ELSE [raised |-> "", value |-> index[Len(index)]]

plot_prediction_point_estimate(conn, series, predictor) ==
    IF last(series.index).raised # ""
    THEN [raised |-> last(series.index).raised, ret |-> NoReturn,
          future |-> None,
          calls |-> 0, received |-> NotCalled, loaded |-> FALSE,
          frame |-> <<>>, queries |-> 0, figure |-> <<>>]
    ELSE LET dts == PeriodIndex(last(series.index).value, 15, 24 * 4)
             argv == <<conn, Str(series.name), dts>>
             p == call_predictor(predictor, argv)
             got == received_by(predictor, argv)
         IN  IF p.raised # ""
             THEN [raised |-> p.raised, ret |-> NoReturn, future |-> dts,
                   calls |-> 1, received |-> got, loaded |-> p.loaded,
                   frame |-> p.frame, queries |-> p.queries, figure |-> <<>>]
             ELSE IF Len(p.ret.values) # Len(dts.idx)
             THEN \* pd.Series(data, index=...): lengths must match
                  [raised |-> "ValueError", ret |-> NoReturn, future |-> dts,
                   calls |-> 1, received |-> got, loaded |-> p.loaded,
                   frame |-> p.frame, queries |-> p.queries, figure |-> <<>>]
             ELSE LET predictions == Series(p.ret.values, to_datetime(dts))
                  IN  [raised |-> "", ret |-> Figure, future |-> dts,
                       calls |-> 1, received |-> got, loaded |-> p.loaded,
                       frame |-> p.frame, queries |-> p.queries,
                       figure |-> <<line(series.index, series.values),
                                    line(predictions.index.idx,
                                         predictions.values)>>]

----------------------------------------------------------------------------
(* The client and the data source *)

Connections == [up : BOOLEAN]

\* time indexes asked for: any order, repeats allowed
TargetIndexes == SeqsUpTo(TargetInstants, MaxTargets)

\* observed series: past instants in time order, one count each
IsAscending(ts) == \A i \in 1..(Len(ts) - 1) : ts[i] < ts[i + 1]

ObservedSeries ==
    {s \in [name : Floors,
            index : SeqsUpTo(ObservedInstants, MaxObserved),
            values : SeqsUpTo(Counts, MaxObserved)] :
        /\ Len(s.index) = Len(s.values)
        /\ IsAscending(s.index)}

Init ==
    /\ density_data = <<>>
    /\ df = <<>>
    /\ prev_df = <<>>
    /\ op = "none"
    /\ args = NoArgs
    /\ raised = ""
    /\ ret = NoReturn
    /\ nQueries = 0
    /\ predictorCalls = 0
    /\ received = NotCalled
    /\ future_dts = None
    /\ figure = <<>>

\* The collector dumps a row into the data source: dump times never go
\* back and a group is dumped once per instant.  The client is single
\* threaded and its calls are synchronous, so a dump falls between calls.
Insert(row) ==
    /\ op = "none"
    /\ Len(density_data) < MaxRows
    /\ \A i \in DOMAIN density_data :
          /\ density_data[i].dump_time <= row.dump_time
          /\ ~(/\ density_data[i].dump_time = row.dump_time
               /\ density_data[i].group_name = row.group_name)
    /\ density_data' = Append(density_data, row)
    /\ UNCHANGED <<df, prev_df, op, args, raised, ret, nQueries, predictorCalls,
                   received, future_dts, figure>>

\* the client drops the result of its last call and is ready for the next
Discard ==
    /\ op # "none"
    /\ op' = "none"
    /\ args' = NoArgs
    /\ raised' = ""
    /\ ret' = NoReturn
    /\ nQueries' = 0
    /\ predictorCalls' = 0
    /\ received' = NotCalled
    /\ future_dts' = None
    /\ figure' = <<>>
    /\ prev_df' = <<>>
    /\ UNCHANGED <<density_data, df>>

\* the client calls get_historical_means on the frame of the current rows
CallGetHistoricalMeans(floor, ts) ==
    LET r == get_historical_means(set_index(density_data), Str(floor),
                                  DatetimeIndex(ts))
    IN  /\ op = "none"
        /\ op' = "get_historical_means"
        /\ args' = [NoArgs EXCEPT !.floor = Str(floor),
                                  !.index = DatetimeIndex(ts)]
        /\ raised' = r.raised
        /\ ret' = IF r.raised = "" THEN List(r.values) ELSE NoReturn
        /\ nQueries' = 0
        /\ predictorCalls' = 0
        /\ received' = NotCalled
        /\ df' = df
        /\ prev_df' = df
        /\ future_dts' = None
        /\ figure' = <<>>
        /\ UNCHANGED density_data

\* the client calls df_predict(conn, index, floor)
CallDfPredict(conn, ts, floor) ==
    LET r == df_predict(conn, DatetimeIndex(ts), Str(floor))
    IN  /\ op = "none"
        /\ op' = "df_predict"
        /\ args' = [NoArgs EXCEPT !.conn = conn,
                                  !.floor = Str(floor),
                                  !.index = DatetimeIndex(ts)]
        /\ raised' = r.raised
        /\ ret' = r.ret
        /\ nQueries' = r.queries
        /\ predictorCalls' = 0
        /\ received' = [index |-> DatetimeIndex(ts), floor |-> Str(floor)]
        /\ df' = IF r.loaded THEN r.frame ELSE df
        /\ prev_df' = df
        /\ future_dts' = None
        /\ figure' = <<>>
        /\ UNCHANGED density_data

\* the client calls plot_prediction_point_estimate(conn, series, predictor)
CallPlot(conn, series, predictor) ==
    LET r == plot_prediction_point_estimate(conn, series, predictor)
    IN  /\ op = "none"
        /\ op' = "plot_prediction_point_estimate"
        /\ args' = [NoArgs EXCEPT !.conn = conn,
                                  !.series = series.index,
                                  !.name = series.name,
                                  !.predictor = predictor]
        /\ raised' = r.raised
        /\ ret' = r.ret
        /\ nQueries' = r.queries
        /\ predictorCalls' = r.calls
        /\ received' = r.received
        /\ df' = IF r.loaded THEN r.frame ELSE df
        /\ prev_df' = df
        /\ future_dts' = r.future
        /\ figure' = r.figure
        /\ UNCHANGED density_data

Next ==
    \/ \E row \in Rows : Insert(row)
    \/ Discard
    \/ \E floor \in Floors, ts \in TargetIndexes :
          CallGetHistoricalMeans(floor, ts)
    \/ \E conn \in Connections, ts \in TargetIndexes, floor \in Floors :
          CallDfPredict(conn, ts, floor)
    \/ \E conn \in Connections, series \in ObservedSeries,
          predictor \in Predictors :
          CallPlot(conn, series, predictor)

Spec == Init /\ [][Next]_vars

----------------------------------------------------------------------------
(* What the claims speak of *)

\* the rows of the data source that match floor and instant t: the same
\* group name, the same day of the week, the same time of day
Matching(floor, t) ==
    {i \in DOMAIN density_data :
        /\ density_data[i].group_name = floor
        /\ dayofweek(density_data[i].dump_time) = dayofweek(t)
        /\ time(density_data[i].dump_time) = time(t)}

RECURSIVE TotalCount(_)
TotalCount(I) ==
    IF I = {} THEN 0
    ELSE LET i == CHOOSE j \in I : TRUE
         IN  density_data[i].client_count + TotalCount(I \ {i})

\* the fraction v is the arithmetic mean of client_count over the rows I
IsMeanOver(v, I) ==
    /\ I # {}
    /\ v[2] > 0
    /\ v[1] * Cardinality(I) = v[2] * TotalCount(I)

Returned(o) == op = o /\ raised = ""

Targets == args.index.idx

----------------------------------------------------------------------------
(* Historical Mean Estimator *)

\* C1: when every target instant has a record of the floor with the same
\* day of week and time of day, get_historical_means returns, for each
\* target instant, the arithmetic mean of client_count over exactly the
\* matching records.
C1_MeanOfMatchingRecords ==
    (/\ op = "get_historical_means"
     /\ \A i \in DOMAIN Targets : Matching(args.floor.s, Targets[i]) # {})
    => /\ raised = ""
       /\ ret.kind = "list"
       /\ DOMAIN ret.values = DOMAIN Targets
       /\ \A i \in DOMAIN Targets :
             IsMeanOver(ret.values[i], Matching(args.floor.s, Targets[i]))

\* a call that returned a mean while a record of the data source did not
\* contribute to it
C1_Witness ==
    /\ Returned("get_historical_means")
    /\ \E i \in DOMAIN Targets :
          /\ Matching(args.floor.s, Targets[i]) # {}
          /\ Matching(args.floor.s, Targets[i]) # DOMAIN density_data

\* C2: whenever get_historical_means returns, its output is as long as the
\* target index and the value at position i is the one computed for the
\* target instant at position i alone.
C2_OutputAligned ==
    Returned("get_historical_means")
    => /\ Len(ret.values) = Len(Targets)
       /\ \A i \in DOMAIN Targets :
             LET alone == get_historical_means(set_index(density_data),
                              args.floor, DatetimeIndex(<<Targets[i]>>))
             IN  alone.raised = "" /\ alone.values = <<ret.values[i]>>

\* a returned list whose positions hold different values
C2_Witness ==
    /\ Returned("get_historical_means")
    /\ Len(Targets) >= 2
    /\ ret.values[1] # ret.values[2]

\* C3: if a target instant has no matching record, the whole call fails
\* with the lookup miss (KeyError) and returns nothing, wherever that
\* instant stands and however many others match.
C3_MissFailsWholeCall ==
    (/\ op = "get_historical_means"
     /\ \E i \in DOMAIN Targets : Matching(args.floor.s, Targets[i]) = {})
    => /\ raised = "KeyError"
       /\ ret = NoReturn

\* a failed call whose first target instant matched and whose second did not
C3_Witness ==
    /\ op = "get_historical_means"
    /\ raised = "KeyError"
    /\ Len(Targets) >= 2
    /\ Matching(args.floor.s, Targets[1]) # {}
    /\ Matching(args.floor.s, Targets[2]) = {}

----------------------------------------------------------------------------
(* Comparison Renderer *)

Plotted == op = "plot_prediction_point_estimate"

\* the instants of the future index, as the chart gets them
FutureInstants == to_datetime(future_dts).idx

\* C4: given a non-empty observed series whose last instant is T, the
\* renderer derives a future index that starts strictly after T, holds
\* exactly 96 instants and steps by exactly 15 minutes.
C4_FutureIndexAfterLast ==
    (Plotted /\ args.series # <<>>)
    => /\ future_dts.kind = "PeriodIndex"
       /\ Len(FutureInstants) = 96
       /\ \A i \in 1..95 : FutureInstants[i + 1] - FutureInstants[i] = 15 * 60
       /\ FutureInstants[1] > args.series[Len(args.series)]

\* C5: the renderer calls the injected predictor with the floor name and
\* the future index in the roles of the builder's contract: df_predict,
\* when injected, receives the series name as its floor and the future
\* index as its target index.
C5_PredictorArgumentRoles ==
    (Plotted /\ args.predictor = "df_predict" /\ predictorCalls = 1)
    => /\ received.floor = Str(args.name)
       /\ received.index = future_dts
       /\ Len(received.index.idx) = 96

\* C7: an empty observed series is rejected with an error before the
\* predictor is called and before a chart is built; no chart is returned.
C7_EmptySeriesRejected ==
    (Plotted /\ args.series = <<>>)
    => /\ raised = "IndexError"
       /\ predictorCalls = 0
       /\ nQueries = 0
       /\ figure = <<>>
       /\ ret = NoReturn

\* a render call on an empty series that failed
C7_Witness ==
    /\ Plotted
    /\ args.series = <<>>
    /\ raised # ""

----------------------------------------------------------------------------
(* Prediction Series Builder *)

\* what get_historical_means gives on the rows of the data source
Estimate ==
    get_historical_means(set_index(density_data), args.floor, args.index)

\* C6: a df_predict call that succeeds returns a series whose index is
\* exactly the target index and whose i-th value is the i-th value of
\* get_historical_means on the freshly loaded table, floor and index.
C6_SeriesOverTargetIndex ==
    Returned("df_predict")
    => /\ ret.kind = "Series"
       /\ ret.index = args.index
       /\ Estimate.raised = ""
       /\ DOMAIN ret.values = DOMAIN Targets
       /\ \A i \in DOMAIN Targets : ret.values[i] = Estimate.values[i]

\* a series over two instants given out of time order
C6_Witness ==
    /\ Returned("df_predict")
    /\ Len(Targets) >= 2
    /\ Targets[1] > Targets[2]

\* the last call ran df_predict: the client called it or the renderer did
RanDfPredict ==
    \/ op = "df_predict"
    \/ Plotted /\ args.predictor = "df_predict" /\ predictorCalls = 1

\* C9: when the query fails during a df_predict call, the failure is the
\* call's outcome, one query was issued and no series is returned.
C9_QueryFailurePropagates ==
    (RanDfPredict /\ ~args.conn.up)
    => /\ raised = "DatabaseError"
       /\ nQueries = 1
       /\ ret = NoReturn
       /\ figure = <<>>

\* a df_predict call on a connection whose query fails
C9_Witness ==
    /\ op = "df_predict"
    /\ ~args.conn.up
    /\ raised = "DatabaseError"

\* C10: every df_predict call issues exactly one query and its outcome is
\* that of get_historical_means on the rows of the data source as of the
\* call, whatever an earlier call loaded.
C10_FreshReadEveryCall ==
    /\ RanDfPredict => nQueries = 1
    /\ (op = "df_predict" /\ args.conn.up)
       => /\ raised = Estimate.raised
          /\ raised = "" => ret.values = Estimate.values
          /\ df = set_index(density_data)

\* a call that returned after the data source had changed since an earlier
\* call's load, with a result the earlier frame does not give
C10_Witness ==
    /\ Returned("df_predict")
    /\ prev_df # <<>>
    /\ prev_df # set_index(density_data)
    /\ LET old == get_historical_means(prev_df, args.floor, args.index)
       IN  old.raised # "" \/ old.values # ret.values

----------------------------------------------------------------------------
(* Index validation *)

IsStrictlyAscending(ts) == \A i \in 1..(Len(ts) - 1) : ts[i] < ts[i + 1]

\* C8, as stated: a target index that is not monotonic or holds an instant
\* twice is rejected with an error; no sequence of means is returned.
C8_MalformedIndexRejected ==
    (op = "get_historical_means" /\ ~IsStrictlyAscending(Targets))
    => /\ raised # ""
       /\ ret = NoReturn

\* C8, amended: such an index is not rejected for its order or its
\* repeats: the call fails exactly when some instant has no matching
\* record, and then with the lookup miss; otherwise it returns one mean per
\* position, in the order of the index.
C8_MalformedIndexAccepted ==
    (op = "get_historical_means" /\ ~IsStrictlyAscending(Targets))
    => /\ raised \in {"", "KeyError"}
       /\ raised = "KeyError"
            <=> \E i \in DOMAIN Targets : Matching(args.floor.s, Targets[i]) = {}
       /\ raised = ""
            => /\ Len(ret.values) = Len(Targets)
               /\ \A i \in DOMAIN Targets :
                     IsMeanOver(ret.values[i],
                                Matching(args.floor.s, Targets[i]))

\* a list of means returned for an index that goes back in time
C8_Witness ==
    /\ Returned("get_historical_means")
    /\ Len(Targets) >= 2
    /\ Targets[1] > Targets[2]
    /\ Len(ret.values) = Len(Targets)

====
